---- MODULE Spec2Model ----
(***************************************************************************)
(* Model of robot_workcell.py: WorkcellDevice, RobotArm and Workcell.      *)
(* The workcell is driven by calls of its public methods; the multi-step   *)
(* method run_cell_screening_protocol is followed step by step.            *)
(***************************************************************************)
EXTENDS Integers, Sequences, FiniteSets, TLC

VARIABLES devices, robot, protocol_log, pc, step, proc, last, calls, report

vars == <<devices, robot, protocol_log, pc, step, proc, last, calls, report>>

\* ------------------------------------------------------------------ bounds
\* number of top-level method calls made on the workcell by its driver
MaxCalls == 2

\* length of the logs the report is computed from
MaxLog == 6

\* ------------------------------------------------------- program constants
None == "None"

\* plate id of main() and of run_cell_screening_protocol
PLATE == "CELL_CULTURE_PLATE_001"

\* a second plate id a caller may supply
OtherPlate == "P2"

PlateIds == {PLATE, OtherPlate}

\* the keys of Workcell.devices after main() has added the five devices
DeviceNames == {"Storage", "LiquidHandler", "ThermalCycler", "PlateReader", "Centrifuge"}

\* a name that is not a key of Workcell.devices
UnknownName == "Unknown"

CallNames == DeviceNames \cup {UnknownName}

\* Position(x, y, z, name)
Position(x, y, z, name) == [x |-> x, y |-> y, z |-> z, name |-> name]

Home == Position(0, 0, 0, "Home")

\* the position main() gives each device
DevicePosition(d) ==
    CASE d = "Storage"       -> Position(100, 200, 50, "Storage")
      [] d = "LiquidHandler" -> Position(400, 200, 100, "LiquidHandler")
      [] d = "ThermalCycler" -> Position(700, 200, 80, "ThermalCycler")
      [] d = "PlateReader"   -> Position(1000, 200, 90, "PlateReader")
      [] d = "Centrifuge"    -> Position(550, 400, 75, "Centrifuge")

Positions == {Home} \cup {DevicePosition(d) : d \in DeviceNames}

\* ------------------------------------------------------------- exceptions
NoError == [type |-> "none", msg |-> <<>>]

\* raise Exception(f"...") with the parts of the message that vary
Error(msg) == [type |-> "Exception", msg |-> msg]

\* self.devices[name] on a missing key
KeyError(name) == [type |-> "KeyError", msg |-> <<name>>]

\* --------------------------------------------------------- WorkcellDevice
\* WorkcellDevice.__init__
NewDevice == [status |-> "idle", has_plate |-> FALSE, plate_id |-> None]

\* load_plate that stores the new id before it checks the device
load_plate_overwrites(dv, d, plate_id) ==
    IF dv.has_plate
    THEN [ok |-> FALSE, err |-> Error(<<d, "already has plate", dv.plate_id>>),
          dev |-> [dv EXCEPT !.plate_id = plate_id]]
    ELSE [ok |-> TRUE, err |-> NoError,
          dev |-> [status |-> "loaded", has_plate |-> TRUE, plate_id |-> plate_id]]

\* WorkcellDevice.load_plate: result of the call on device record dv named d
load_plate(dv, d, plate_id) ==
    IF dv.has_plate
    THEN [ok |-> FALSE, err |-> Error(<<d, "already has plate", dv.plate_id>>), dev |-> dv]
    ELSE [ok |-> TRUE, err |-> NoError,
          dev |-> [status |-> "loaded", has_plate |-> TRUE, plate_id |-> plate_id]]

\* WorkcellDevice.unload_plate: ret is the plate id returned
unload_plate(dv, d) ==
    IF ~dv.has_plate
    THEN [ok |-> FALSE, err |-> Error(<<d, "has no plate to unload">>), dev |-> dv, ret |-> None]
    ELSE [ok |-> TRUE, err |-> NoError, ret |-> dv.plate_id,
          dev |-> [status |-> "idle", has_plate |-> FALSE, plate_id |-> None]]

\* WorkcellDevice.process up to the sleep: status becomes 'processing'
process_begin(dv, d) ==
    IF ~dv.has_plate
    THEN [ok |-> FALSE, err |-> Error(<<d, "has no plate to process">>), dev |-> dv]
    ELSE [ok |-> TRUE, err |-> NoError, dev |-> [dv EXCEPT !.status = "processing"]]

\* WorkcellDevice.process after the sleep: status becomes 'complete'
process_end(dv) == [dv EXCEPT !.status = "complete"]

\* ---------------------------------------------------------------- RobotArm
\* RobotArm.__init__
NewRobot == [current_position |-> Home, has_plate |-> FALSE, plate_id |-> None,
             moves_count |-> 0]

\* move_to that does not count a move to the position the robot is at
move_to_skips_same_position(r, target_position) ==
    IF r.current_position = target_position
    THEN r
    ELSE [r EXCEPT !.current_position = target_position, !.moves_count = @ + 1]

\* RobotArm.move_to
move_to(r, target_position) ==
    [r EXCEPT !.current_position = target_position, !.moves_count = @ + 1]

\* pick_plate that moves to the device before it checks the device
pick_plate_moves_first(r, dvs, d, plate_id) ==
    IF r.has_plate
    THEN [ok |-> FALSE, err |-> Error(<<"RobotArm", "already holding plate", r.plate_id>>),
          robot |-> r, devices |-> dvs]
    ELSE LET moved == move_to(r, DevicePosition(d))
         IN  IF ~dvs[d].has_plate
             THEN [ok |-> FALSE, err |-> Error(<<d, "has no plate to pick">>),
                   robot |-> moved, devices |-> dvs]
             ELSE [ok |-> TRUE, err |-> NoError,
                   robot |-> [moved EXCEPT !.has_plate = TRUE, !.plate_id = plate_id],
                   devices |-> [dvs EXCEPT ![d] = unload_plate(dvs[d], d).dev]]

\* pick_plate without the check of the gripper
pick_plate_unchecked_gripper(r, dvs, d, plate_id) ==
    IF ~dvs[d].has_plate
    THEN [ok |-> FALSE, err |-> Error(<<d, "has no plate to pick">>),
          robot |-> r, devices |-> dvs]
    ELSE LET moved == move_to(r, DevicePosition(d))
         IN  [ok |-> TRUE, err |-> NoError,
              robot |-> [moved EXCEPT !.has_plate = TRUE, !.plate_id = plate_id],
              devices |-> [dvs EXCEPT ![d] = unload_plate(dvs[d], d).dev]]

\* pick_plate that takes the plate without unloading the device
pick_plate_keeps_device(r, dvs, d, plate_id) ==
    IF r.has_plate
    THEN [ok |-> FALSE, err |-> Error(<<"RobotArm", "already holding plate", r.plate_id>>),
          robot |-> r, devices |-> dvs]
    ELSE IF ~dvs[d].has_plate
    THEN [ok |-> FALSE, err |-> Error(<<d, "has no plate to pick">>),
          robot |-> r, devices |-> dvs]
    ELSE LET moved == move_to(r, DevicePosition(d))
         IN  [ok |-> TRUE, err |-> NoError,
              robot |-> [moved EXCEPT !.has_plate = TRUE, !.plate_id = plate_id],
              devices |-> dvs]

\* RobotArm.pick_plate on robot r and device map dvs
pick_plate(r, dvs, d, plate_id) ==
    IF r.has_plate
    THEN [ok |-> FALSE, err |-> Error(<<"RobotArm", "already holding plate", r.plate_id>>),
          robot |-> r, devices |-> dvs]
    ELSE IF ~dvs[d].has_plate
    THEN [ok |-> FALSE, err |-> Error(<<d, "has no plate to pick">>),
          robot |-> r, devices |-> dvs]
    ELSE LET moved == move_to(r, DevicePosition(d))
             un    == unload_plate(dvs[d], d)
         IN  [ok |-> TRUE, err |-> NoError,
              robot |-> [moved EXCEPT !.has_plate = TRUE, !.plate_id = plate_id],
              devices |-> [dvs EXCEPT ![d] = un.dev]]

\* place_plate that loads the device and leaves the plate in the gripper
place_plate_keeps_gripper(r, dvs, d) ==
    IF ~r.has_plate
    THEN [ok |-> FALSE, err |-> Error(<<"RobotArm", "not holding a plate">>),
          robot |-> r, devices |-> dvs]
    ELSE IF dvs[d].has_plate
    THEN [ok |-> FALSE, err |-> Error(<<d, "already has plate", dvs[d].plate_id>>),
          robot |-> r, devices |-> dvs]
    ELSE LET moved == move_to(r, DevicePosition(d))
         IN  [ok |-> TRUE, err |-> NoError, robot |-> moved,
              devices |-> [dvs EXCEPT ![d] = load_plate(dvs[d], d, moved.plate_id).dev]]

\* place_plate that moves to the device before it checks the device
place_plate_moves_first(r, dvs, d) ==
    IF ~r.has_plate
    THEN [ok |-> FALSE, err |-> Error(<<"RobotArm", "not holding a plate">>),
          robot |-> r, devices |-> dvs]
    ELSE LET moved == move_to(r, DevicePosition(d))
         IN  IF dvs[d].has_plate
             THEN [ok |-> FALSE, err |-> Error(<<d, "already has plate", dvs[d].plate_id>>),
                   robot |-> moved, devices |-> dvs]
             ELSE [ok |-> TRUE, err |-> NoError,
                   robot |-> [moved EXCEPT !.has_plate = FALSE, !.plate_id = None],
                   devices |-> [dvs EXCEPT ![d] = load_plate(dvs[d], d, moved.plate_id).dev]]

\* RobotArm.place_plate
place_plate(r, dvs, d) ==
    IF ~r.has_plate
    THEN [ok |-> FALSE, err |-> Error(<<"RobotArm", "not holding a plate">>),
          robot |-> r, devices |-> dvs]
    ELSE IF dvs[d].has_plate
    THEN [ok |-> FALSE, err |-> Error(<<d, "already has plate", dvs[d].plate_id>>),
          robot |-> r, devices |-> dvs]
    ELSE LET moved == move_to(r, DevicePosition(d))
             ld    == load_plate(dvs[d], d, moved.plate_id)
         IN  [ok |-> TRUE, err |-> NoError,
              robot |-> [moved EXCEPT !.has_plate = FALSE, !.plate_id = None],
              devices |-> [dvs EXCEPT ![d] = ld.dev]]

\* return_home that counts the move but stays where the robot is
return_home_stays(r) == move_to(r, r.current_position)

\* RobotArm.return_home
return_home(r) == move_to(r, Position(0, 0, 0, "Home"))

\* ---------------------------------------------------------------- Workcell
\* the dict appended to protocol_log on success (timestamp left out)
SuccessEntry(plate_id, from, to) ==
    [plate_id |-> plate_id, from |-> from, to |-> to, status |-> "success"]

\* the dict appended to protocol_log in the except branch
FailedEntry(plate_id, from, to, e) ==
    [plate_id |-> plate_id, from |-> from, to |-> to, status |-> "failed", error |-> e.msg]

\* transfer_plate that logs nothing when the pick fails
transfer_plate_unlogged_failure(r, dvs, log, plate_id, from, to) ==
    IF from \notin DeviceNames
    THEN [ret |-> "raised", err |-> KeyError(from), robot |-> r, devices |-> dvs, log |-> log]
    ELSE IF to \notin DeviceNames
    THEN [ret |-> "raised", err |-> KeyError(to), robot |-> r, devices |-> dvs, log |-> log]
    ELSE LET pk == pick_plate(r, dvs, from, plate_id)
         IN  IF ~pk.ok
             THEN [ret |-> "False", err |-> NoError, robot |-> pk.robot, devices |-> pk.devices,
                   log |-> log]
             ELSE LET pl == place_plate(pk.robot, pk.devices, to)
                  IN  IF ~pl.ok
                      THEN [ret |-> "False", err |-> NoError,
                            robot |-> pl.robot, devices |-> pl.devices,
                            log |-> Append(log, FailedEntry(plate_id, from, to, pl.err))]
                      ELSE [ret |-> "True", err |-> NoError,
                            robot |-> pl.robot, devices |-> pl.devices,
                            log |-> Append(log, SuccessEntry(plate_id, from, to))]

\* transfer_plate whose try block covers the pick only: an error of the
\* place reaches the caller
transfer_plate_place_uncaught(r, dvs, log, plate_id, from, to) ==
    IF from \notin DeviceNames
    THEN [ret |-> "raised", err |-> KeyError(from), robot |-> r, devices |-> dvs, log |-> log]
    ELSE IF to \notin DeviceNames
    THEN [ret |-> "raised", err |-> KeyError(to), robot |-> r, devices |-> dvs, log |-> log]
    ELSE LET pk == pick_plate(r, dvs, from, plate_id)
         IN  IF ~pk.ok
             THEN [ret |-> "False", err |-> NoError, robot |-> pk.robot, devices |-> pk.devices,
                   log |-> Append(log, FailedEntry(plate_id, from, to, pk.err))]
             ELSE LET pl == place_plate(pk.robot, pk.devices, to)
                  IN  IF ~pl.ok
                      THEN [ret |-> "raised", err |-> pl.err,
                            robot |-> pl.robot, devices |-> pl.devices, log |-> log]
                      ELSE [ret |-> "True", err |-> NoError,
                            robot |-> pl.robot, devices |-> pl.devices,
                            log |-> Append(log, SuccessEntry(plate_id, from, to))]

\* Workcell.transfer_plate on registered or unregistered names
transfer_plate(r, dvs, log, plate_id, from, to) ==
    IF from \notin DeviceNames
    THEN [ret |-> "raised", err |-> KeyError(from), robot |-> r, devices |-> dvs, log |-> log]
    ELSE IF to \notin DeviceNames
    THEN [ret |-> "raised", err |-> KeyError(to), robot |-> r, devices |-> dvs, log |-> log]
    ELSE LET pk == pick_plate(r, dvs, from, plate_id)
         IN  IF ~pk.ok
             THEN [ret |-> "False", err |-> NoError, robot |-> pk.robot, devices |-> pk.devices,
                   log |-> Append(log, FailedEntry(plate_id, from, to, pk.err))]
             ELSE LET pl == place_plate(pk.robot, pk.devices, to)
                  IN  IF ~pl.ok
                      THEN [ret |-> "False", err |-> NoError,
                            robot |-> pl.robot, devices |-> pl.devices,
                            log |-> Append(log, FailedEntry(plate_id, from, to, pl.err))]
                      ELSE [ret |-> "True", err |-> NoError,
                            robot |-> pl.robot, devices |-> pl.devices,
                            log |-> Append(log, SuccessEntry(plate_id, from, to))]

\* show_protocol_log that empties the log once it is shown
show_protocol_log_clears(log) == <<>>

\* Workcell.show_protocol_log: the log after the call, which only reads it
show_protocol_log(log) == log

\* total_transfers = len(self.protocol_log)
total_transfers(log) == Len(log)

\* successful_transfers = len([l for l in self.protocol_log if l['status'] == 'success'])
successful_transfers(log) == Cardinality({i \in 1..Len(log) : log[i].status = "success"})

\* failed_transfers = total_transfers - successful_transfers
failed_transfers(log) == total_transfers(log) - successful_transfers(log)

\* the integer nearest to n / d, a tie going to the even one, as the
\* format specification .1f rounds the value it prints
RoundHalfEven(n, d) ==
    LET q == n \div d
        r == n % d
    IN  IF 2 * r < d THEN q
        ELSE IF 2 * r > d THEN q + 1
        ELSE IF q % 2 = 0 THEN q ELSE q + 1

\* success_rate cut off after the first decimal instead of rounded
success_rate_truncates(log) ==
    IF total_transfers(log) > 0
    THEN (successful_transfers(log) * 1000) \div total_transfers(log)
    ELSE 0

\* success_rate as printed by f"{success_rate:.1f}", in tenths of a percent
success_rate(log) ==
    IF total_transfers(log) > 0
    THEN RoundHalfEven(successful_transfers(log) * 1000, total_transfers(log))
    ELSE 0

\* no report printed yet
NoReport == [printed |-> FALSE, total |-> 0, successful |-> 0, failed |-> 0, rate |-> 0]

\* the four metrics run_cell_screening_protocol prints
Report(log) ==
    [printed |-> TRUE, total |-> total_transfers(log),
     successful |-> successful_transfers(log), failed |-> failed_transfers(log),
     rate |-> success_rate(log)]

\* the hardcoded steps of run_cell_screening_protocol, in order
Protocol ==
    << [kind |-> "transfer", from |-> "Storage", to |-> "LiquidHandler"],
       [kind |-> "process", device |-> "LiquidHandler"],
       [kind |-> "transfer", from |-> "LiquidHandler", to |-> "Centrifuge"],
       [kind |-> "process", device |-> "Centrifuge"],
       [kind |-> "transfer", from |-> "Centrifuge", to |-> "ThermalCycler"],
       [kind |-> "process", device |-> "ThermalCycler"],
       [kind |-> "transfer", from |-> "ThermalCycler", to |-> "PlateReader"],
       [kind |-> "process", device |-> "PlateReader"],
       [kind |-> "transfer", from |-> "PlateReader", to |-> "Storage"],
       [kind |-> "return_home"] >>

\* the record of the most recent call: method, arguments, outcome
Call(op, args, ret, err) == [op |-> op, args |-> args, ret |-> ret, err |-> err]

\* ------------------------------------------------------------------- Init
\* main(): five devices, Storage given has_plate and plate_id directly
MainDevices ==
    [d \in DeviceNames |->
        IF d = "Storage"
        THEN [NewDevice EXCEPT !.has_plate = TRUE, !.plate_id = PLATE]
        ELSE NewDevice]

Init ==
    /\ devices = MainDevices
    /\ robot = NewRobot
    /\ protocol_log = <<>>
    /\ pc = "idle"
    /\ step = 0
    /\ proc = None
    /\ last = Call("main", <<>>, "None", NoError)
    /\ calls = 0
    /\ report = NoReport

\* a top-level call may start when no call is in progress
CanCall == pc # "run" /\ proc = None /\ calls < MaxCalls

Called == /\ calls' = calls + 1
          /\ pc' = "idle"
          /\ step' = 0
          /\ report' = report

\* ------------------------------------------------- calls on a device
LoadPlate(d, p) ==
    /\ CanCall
    /\ LET res == load_plate(devices[d], d, p)
       IN  /\ devices' = [devices EXCEPT ![d] = res.dev]
           /\ last' = Call("load_plate", <<d, p>>, IF res.ok THEN "True" ELSE "raised", res.err)
    /\ Called
    /\ UNCHANGED <<robot, protocol_log, proc>>

UnloadPlate(d) ==
    /\ CanCall
    /\ LET res == unload_plate(devices[d], d)
       IN  /\ devices' = [devices EXCEPT ![d] = res.dev]
           /\ last' = Call("unload_plate", <<d>>, IF res.ok THEN res.ret ELSE "raised", res.err)
    /\ Called
    /\ UNCHANGED <<robot, protocol_log, proc>>

\* device.process(): the call up to its sleep
Process(d) ==
    /\ CanCall
    /\ LET res == process_begin(devices[d], d)
       IN  /\ devices' = [devices EXCEPT ![d] = res.dev]
           /\ proc' = IF res.ok THEN d ELSE None
           /\ last' = Call("process", <<d>>, IF res.ok THEN "pending" ELSE "raised", res.err)
    /\ Called
    /\ UNCHANGED <<robot, protocol_log>>

\* device.process(): from the end of the sleep to the return, for a direct
\* call and for a call made by the protocol
ProcessEnd ==
    /\ proc # None
    /\ devices' = [devices EXCEPT ![proc] = process_end(devices[proc])]
    /\ proc' = None
    /\ last' = Call("process", <<proc>>, "True", NoError)
    /\ IF pc = "run" THEN step' = step + 1 ELSE step' = step
    /\ UNCHANGED <<robot, protocol_log, pc, calls, report>>

\* ------------------------------------------------- calls on the robot
MoveTo(pos) ==
    /\ CanCall
    /\ robot' = move_to(robot, pos)
    /\ last' = Call("move_to", <<pos.name>>, "True", NoError)
    /\ Called
    /\ UNCHANGED <<devices, protocol_log, proc>>

PickPlate(d, p) ==
    /\ CanCall
    /\ LET res == pick_plate(robot, devices, d, p)
       IN  /\ robot' = res.robot
           /\ devices' = res.devices
           /\ last' = Call("pick_plate", <<d, p>>, IF res.ok THEN "True" ELSE "raised", res.err)
    /\ Called
    /\ UNCHANGED <<protocol_log, proc>>

PlacePlate(d) ==
    /\ CanCall
    /\ LET res == place_plate(robot, devices, d)
       IN  /\ robot' = res.robot
           /\ devices' = res.devices
           /\ last' = Call("place_plate", <<d>>, IF res.ok THEN "True" ELSE "raised", res.err)
    /\ Called
    /\ UNCHANGED <<protocol_log, proc>>

ReturnHome ==
    /\ CanCall
    /\ robot' = return_home(robot)
    /\ last' = Call("return_home", <<>>, "None", NoError)
    /\ Called
    /\ UNCHANGED <<devices, protocol_log, proc>>

\* ------------------------------------------------- calls on the workcell
TransferPlate(p, from, to) ==
    /\ CanCall
    /\ LET res == transfer_plate(robot, devices, protocol_log, p, from, to)
       IN  /\ robot' = res.robot
           /\ devices' = res.devices
           /\ protocol_log' = res.log
           /\ last' = Call("transfer_plate", <<p, from, to>>, res.ret, res.err)
    /\ Called
    /\ UNCHANGED proc

\* a direct call of show_protocol_log()
ShowProtocolLog ==
    /\ CanCall
    /\ protocol_log' = show_protocol_log(protocol_log)
    /\ last' = Call("show_protocol_log", <<>>, "None", NoError)
    /\ Called
    /\ UNCHANGED <<devices, robot, proc>>

\* run_cell_screening_protocol is entered
StartProtocol ==
    /\ CanCall
    /\ calls' = calls + 1
    /\ pc' = "run"
    /\ step' = 1
    /\ last' = Call("run_cell_screening_protocol", <<>>, "pending", NoError)
    /\ UNCHANGED <<devices, robot, protocol_log, proc, report>>

\* a self.transfer_plate(plate_id, ...) line of the protocol
ProtocolTransfer ==
    /\ pc = "run" /\ proc = None
    /\ step \in 1..Len(Protocol)
    /\ Protocol[step].kind = "transfer"
    /\ LET s   == Protocol[step]
           res == transfer_plate(robot, devices, protocol_log, PLATE, s.from, s.to)
       IN  /\ robot' = res.robot
           /\ devices' = res.devices
           /\ protocol_log' = res.log
           /\ last' = Call("transfer_plate", <<PLATE, s.from, s.to>>, res.ret, res.err)
    /\ step' = step + 1
    /\ UNCHANGED <<pc, proc, calls, report>>

\* a process line that is tried again when the device is empty
ProtocolProcess_retries ==
    /\ pc = "run" /\ proc = None
    /\ step \in 1..Len(Protocol)
    /\ Protocol[step].kind = "process"
    /\ LET d   == Protocol[step].device
           res == process_begin(devices[d], d)
       IN  /\ devices' = [devices EXCEPT ![d] = res.dev]
           /\ proc' = IF res.ok THEN d ELSE None
           /\ last' = Call("process", <<d>>, IF res.ok THEN "pending" ELSE "raised", res.err)
    /\ UNCHANGED <<robot, protocol_log, pc, step, calls, report>>

\* a process line whose exception is swallowed: the protocol goes on
ProtocolProcess_continues ==
    /\ pc = "run" /\ proc = None
    /\ step \in 1..Len(Protocol)
    /\ Protocol[step].kind = "process"
    /\ LET d   == Protocol[step].device
           res == process_begin(devices[d], d)
       IN  /\ devices' = [devices EXCEPT ![d] = res.dev]
           /\ proc' = IF res.ok THEN d ELSE None
           /\ step' = IF res.ok THEN step ELSE step + 1
           /\ last' = Call("process", <<d>>, IF res.ok THEN "pending" ELSE "raised", res.err)
    /\ UNCHANGED <<robot, protocol_log, pc, calls, report>>

\* a device.process(duration=...) line of the protocol: an exception goes
\* to the except branch of the protocol, which shows the partial log
ProtocolProcess ==
    /\ pc = "run" /\ proc = None
    /\ step \in 1..Len(Protocol)
    /\ Protocol[step].kind = "process"
    /\ LET d   == Protocol[step].device
           res == process_begin(devices[d], d)
       IN  /\ devices' = [devices EXCEPT ![d] = res.dev]
           /\ proc' = IF res.ok THEN d ELSE None
           /\ pc' = IF res.ok THEN "run" ELSE "aborted"
           /\ last' = IF res.ok
                      THEN Call("process", <<d>>, "pending", NoError)
                      ELSE Call("run_cell_screening_protocol", <<>>, "None", NoError)
           /\ protocol_log' = IF res.ok THEN protocol_log
                                        ELSE show_protocol_log(protocol_log)
    /\ UNCHANGED <<robot, step, calls, report>>

\* self.robot.return_home() of the protocol
ProtocolReturnHome ==
    /\ pc = "run" /\ proc = None
    /\ step \in 1..Len(Protocol)
    /\ Protocol[step].kind = "return_home"
    /\ robot' = return_home(robot)
    /\ last' = Call("return_home", <<>>, "None", NoError)
    /\ step' = step + 1
    /\ UNCHANGED <<devices, protocol_log, pc, proc, calls, report>>

\* the report and show_protocol_log() that end the try block
ProtocolComplete ==
    /\ pc = "run" /\ proc = None
    /\ step = Len(Protocol) + 1
    /\ pc' = "done"
    /\ report' = Report(protocol_log)
    /\ protocol_log' = show_protocol_log(protocol_log)
    /\ last' = Call("run_cell_screening_protocol", <<>>, "None", NoError)
    /\ UNCHANGED <<devices, robot, step, proc, calls>>

ProtocolStep ==
    \/ ProtocolTransfer
    \/ ProtocolProcess
    \/ ProtocolReturnHome
    \/ ProtocolComplete

Next ==
    \/ \E d \in DeviceNames, p \in PlateIds : LoadPlate(d, p)
    \/ \E d \in DeviceNames : UnloadPlate(d)
    \/ \E d \in DeviceNames : Process(d)
    \/ ProcessEnd
    \/ \E pos \in Positions : MoveTo(pos)
    \/ \E d \in DeviceNames, p \in PlateIds : PickPlate(d, p)
    \/ \E d \in DeviceNames : PlacePlate(d)
    \/ ReturnHome
    \/ \E p \in PlateIds, from \in CallNames, to \in CallNames : TransferPlate(p, from, to)
    \/ ShowProtocolLog
    \/ StartProtocol
    \/ ProtocolStep

Spec == Init /\ [][Next]_vars

\* ------------------------------------------- the protocol on any placement
\* a device or gripper preset the way main() presets Storage, through load_plate
Placed(p) == [status |-> "loaded", has_plate |-> TRUE, plate_id |-> p]

\* a workcell set up with any placement of plates in the five devices and
\* the gripper (main()'s own set-up among them), before the protocol is run
InitProto ==
    /\ \/ devices \in [DeviceNames -> {NewDevice} \cup {Placed(p) : p \in PlateIds}]
       \/ devices = MainDevices
    /\ \E h \in {None} \cup PlateIds :
          robot = [NewRobot EXCEPT !.has_plate = (h # None), !.plate_id = h]
    /\ protocol_log = <<>>
    /\ pc = "idle"
    /\ step = 0
    /\ proc = None
    /\ last = Call("main", <<>>, "None", NoError)
    /\ calls = 0
    /\ report = NoReport

NextProto ==
    \/ StartProtocol
    \/ ProtocolStep
    \/ ProcessEnd

SpecProto == InitProto /\ [][NextProto]_vars

\* the protocol is a sequential program: a step that can be taken is taken
SpecProtoFair == SpecProto /\ WF_vars(NextProto)

\* ------------------------------------- pick and place on any placement
NextRobot ==
    \/ \E d \in DeviceNames, p \in PlateIds : PickPlate(d, p)
    \/ \E d \in DeviceNames : PlacePlate(d)

SpecRobot == InitProto /\ [][NextRobot]_vars

\* ------------------------------------------------ the report on any log
\* a success and a failed entry as transfer_plate appends them
SampleEntries ==
    { SuccessEntry(PLATE, "PlateReader", "Storage"),
      FailedEntry(PLATE, "PlateReader", "Storage",
                  Error(<<"PlateReader", "has no plate to pick">>)) }

\* the logs of up to MaxLog entries
Logs == UNION {[1..n -> SampleEntries] : n \in 0..MaxLog}

\* run_cell_screening_protocol at the line that computes the metrics, with
\* any log
InitReport ==
    /\ devices = MainDevices
    /\ robot = NewRobot
    /\ protocol_log \in Logs
    /\ pc = "run"
    /\ step = Len(Protocol) + 1
    /\ proc = None
    /\ last = Call("return_home", <<>>, "None", NoError)
    /\ calls = 1
    /\ report = NoReport

NextReport == ProtocolComplete

SpecReport == InitReport /\ [][NextReport]_vars

\* ------------------------------------------------------------------ claims
HoldingStatuses == {"loaded", "processing", "complete"}

\* the step just taken completed a transfer_plate call
TransferReturned == last'.op = "transfer_plate"

Registered(from, to) == from \in DeviceNames /\ to \in DeviceNames

LastEntry(log) == log[Len(log)]

\* C1: in every reachable state every device holds a plate (has_plate true,
\* plate_id set) if and only if its status is loaded, processing or complete.
C1_HeldIffStatus ==
    \A d \in DeviceNames :
        /\ devices[d].has_plate <=> devices[d].status \in HoldingStatuses
        /\ devices[d].has_plate <=> devices[d].plate_id # None

\* C2: after a transfer_plate call that returns success the destination
\* holds exactly the plate id the source held immediately before the call and
\* the source holds no plate, for any source, destination and plate id given.
C2_TransferMovesSourcePlate ==
    [][(TransferReturned /\ last'.ret = "True") =>
         LET from == last'.args[2]
             to   == last'.args[3]
         IN  /\ devices'[to].has_plate
             /\ devices'[to].plate_id = devices[from].plate_id
             /\ ~devices'[from].has_plate]_vars

\* the plate ids held by the gripper and the devices, one per holder
Holders(r, dvs, p) ==
    {d \in DeviceNames : dvs[d].has_plate /\ dvs[d].plate_id = p}
        \cup (IF r.has_plate /\ r.plate_id = p THEN {"RobotArm"} ELSE {})

UniqueHolders(r, dvs) == \A p \in PlateIds : Cardinality(Holders(r, dvs, p)) <= 1

\* C3: a transfer_plate call made in a state where every plate id has at
\* most one holder among gripper and devices leaves every plate id with at
\* most one holder.
C3_NoDuplicateHolder ==
    [][(TransferReturned /\ UniqueHolders(robot, devices))
         => UniqueHolders(robot', devices')]_vars

\* C4: every transfer_plate call on registered names appends exactly one
\* entry to protocol_log, after the entries of the earlier calls: status
\* success iff the call returns True, failed iff it returns False, and the
\* entry carries the call's plate id, source and destination.
C4_OneEntryPerTransfer ==
    [][(TransferReturned /\ Registered(last'.args[2], last'.args[3])) =>
         /\ Len(protocol_log') = Len(protocol_log) + 1
         /\ SubSeq(protocol_log', 1, Len(protocol_log)) = protocol_log
         /\ LastEntry(protocol_log').plate_id = last'.args[1]
         /\ LastEntry(protocol_log').from = last'.args[2]
         /\ LastEntry(protocol_log').to = last'.args[3]
         /\ LastEntry(protocol_log').status \in {"success", "failed"}
         /\ last'.ret \in {"True", "False"}
         /\ LastEntry(protocol_log').status = "success" <=> last'.ret = "True"
         /\ LastEntry(protocol_log').status = "failed" <=> last'.ret = "False"]_vars

\* a log holding a success entry after a failed one: two calls, in call order
C4_Witness ==
    /\ Len(protocol_log) = 2
    /\ protocol_log[1].status = "failed"
    /\ protocol_log[2].status = "success"
    /\ last.op = "transfer_plate" /\ last.ret = "True"

\* the message of the precondition that fails in a transfer from a state
\* (r, dvs), <<>> when neither pick nor place fails
FailingPrecondition(r, dvs, from, to) ==
    IF r.has_plate THEN <<"RobotArm", "already holding plate", r.plate_id>>
    ELSE IF ~dvs[from].has_plate THEN <<from, "has no plate to pick">>
    ELSE IF to # from /\ dvs[to].has_plate THEN <<to, "already has plate", dvs[to].plate_id>>
    ELSE <<>>

\* C5: when pick_plate or place_plate fails inside transfer_plate, the call
\* returns False, the Failed entry it appends carries the error detail, and
\* no error reaches the caller.
C5_ErrorCaughtAtBoundary ==
    [][(/\ TransferReturned
        /\ Registered(last'.args[2], last'.args[3])
        /\ FailingPrecondition(robot, devices, last'.args[2], last'.args[3]) # <<>>) =>
         /\ last'.ret = "False"
         /\ last'.err = NoError
         /\ Len(protocol_log') = Len(protocol_log) + 1
         /\ LastEntry(protocol_log').status = "failed"
         /\ LastEntry(protocol_log').error =
               FailingPrecondition(robot, devices, last'.args[2], last'.args[3])]_vars

\* a direct transfer whose place failed on a loaded destination
C5_Witness ==
    /\ last.op = "transfer_plate" /\ last.ret = "False"
    /\ pc = "idle"
    /\ LastEntry(protocol_log).status = "failed"
    /\ LastEntry(protocol_log).error[2] = "already has plate"

\* C6: transfer_plate with an unregistered source or destination name fails
\* with UnknownDeviceError, before any pick or place.
C6_UnknownDeviceError ==
    (last.op = "transfer_plate" /\ ~Registered(last.args[2], last.args[3])) =>
        /\ last.ret = "raised"
        /\ last.err.type = "UnknownDeviceError"

\* C7: when the pick of a transfer succeeds and its place fails (destination
\* loaded and different from the source) the gripper holds the plate under
\* the call's plate id, the source is empty and idle, the destination is
\* unchanged and the robot stands at the source.
C7_NoRollback ==
    [][(/\ TransferReturned
        /\ Registered(last'.args[2], last'.args[3])
        /\ ~robot.has_plate
        /\ devices[last'.args[2]].has_plate
        /\ last'.args[3] # last'.args[2]
        /\ devices[last'.args[3]].has_plate) =>
         LET from == last'.args[2]
             to   == last'.args[3]
         IN  /\ last'.ret = "False"
             /\ robot'.has_plate
             /\ robot'.plate_id = last'.args[1]
             /\ ~devices'[from].has_plate
             /\ devices'[from].plate_id = None
             /\ devices'[from].status = "idle"
             /\ devices'[to] = devices[to]
             /\ robot'.current_position = DevicePosition(from)
             /\ robot'.moves_count = robot.moves_count + 1]_vars

\* a transfer has just stranded a plate in the gripper
C7_Witness ==
    /\ last.op = "transfer_plate" /\ last.ret = "False"
    /\ robot.has_plate
    /\ robot.current_position = DevicePosition(last.args[2])
    /\ ~devices[last.args[2]].has_plate
    /\ devices[last.args[3]].has_plate
    /\ LastEntry(protocol_log).error[2] = "already has plate"

\* the scenario of C8: Storage holds the plate, LiquidHandler holds a plate,
\* gripper empty, and transfer_plate(plate, Storage, LiquidHandler) returns
C8_Scenario ==
    /\ TransferReturned
    /\ last'.args = <<PLATE, "Storage", "LiquidHandler">>
    /\ devices["Storage"].has_plate
    /\ devices["Storage"].plate_id = PLATE
    /\ devices["LiquidHandler"].has_plate
    /\ ~robot.has_plate

C8_OneFailedEntry ==
    /\ last'.ret = "False"
    /\ Len(protocol_log') = Len(protocol_log) + 1
    /\ SubSeq(protocol_log', 1, Len(protocol_log)) = protocol_log
    /\ LastEntry(protocol_log').status = "failed"
    /\ LastEntry(protocol_log').error =
          <<"LiquidHandler", "already has plate", devices["LiquidHandler"].plate_id>>

\* C8 as stated: in the scenario the transfer fails with one Failed entry for
\* the loaded destination and Storage still holds the plate.
C8_StorageStillHolds ==
    [][C8_Scenario =>
         /\ C8_OneFailedEntry
         /\ devices'["Storage"].has_plate
         /\ devices'["Storage"].plate_id = PLATE]_vars

\* C8 amended: in the scenario the transfer fails with one Failed entry for
\* the loaded destination, Storage is left empty and the gripper holds the
\* plate.
C8_PlateLeftInGripper ==
    [][C8_Scenario =>
         /\ C8_OneFailedEntry
         /\ ~devices'["Storage"].has_plate
         /\ devices'["Storage"].plate_id = None
         /\ robot'.has_plate
         /\ robot'.plate_id = PLATE
         /\ devices'["LiquidHandler"] = devices["LiquidHandler"]]_vars

C8_Witness ==
    /\ last.op = "transfer_plate" /\ last.ret = "False"
    /\ last.args = <<PLATE, "Storage", "LiquidHandler">>
    /\ Len(protocol_log) = 1
    /\ protocol_log[1].error[1] = "LiquidHandler"
    /\ protocol_log[1].error[2] = "already has plate"
    /\ robot.plate_id = PLATE
    /\ ~devices["Storage"].has_plate

\* C9: in run_cell_screening_protocol a transfer step, failed or not, is
\* followed by the next step of the protocol, while a process step on an
\* empty device ends the run at once: log, devices and robot are left as they
\* are and no later step of the protocol is taken.
C9_TransferContinuesProcessAborts ==
    /\ [][(pc = "run" /\ proc = None /\ step \in 1..Len(Protocol)) =>
            /\ Protocol[step].kind = "transfer" =>
                  /\ pc' = "run" /\ step' = step + 1
                  /\ TransferReturned /\ last'.ret \in {"True", "False"}
            /\ (Protocol[step].kind = "process"
                  /\ ~devices[Protocol[step].device].has_plate) =>
                  /\ pc' = "aborted"
                  /\ UNCHANGED <<devices, robot, protocol_log, step>>]_vars
    /\ []((pc = "run" /\ last.op = "transfer_plate") => ENABLED ProtocolStep)
    /\ [](pc = "aborted" => ~ENABLED (ProtocolStep \/ ProcessEnd))

\* a run that went on after two failed transfers and was ended by the
\* process step of the Centrifuge
C9_Witness ==
    /\ pc = "aborted"
    /\ step = 4
    /\ Len(protocol_log) = 2
    /\ protocol_log[1].status = "failed"
    /\ protocol_log[2].status = "failed"
    /\ devices["LiquidHandler"].status = "complete"

\* the log of the complete standard run
StandardLog ==
    << SuccessEntry(PLATE, "Storage", "LiquidHandler"),
       SuccessEntry(PLATE, "LiquidHandler", "Centrifuge"),
       SuccessEntry(PLATE, "Centrifuge", "ThermalCycler"),
       SuccessEntry(PLATE, "ThermalCycler", "PlateReader"),
       SuccessEntry(PLATE, "PlateReader", "Storage") >>

\* C10: the protocol run as the first call on the workcell main() builds is
\* never aborted, and when it has completed the log is the five success
\* entries in protocol order, the plate is back in Storage, every other
\* device and the gripper are empty, and the robot is at Home.
C10_StandardRunCompletes ==
    (calls = 1 /\ last.op = "run_cell_screening_protocol" /\ last.ret = "None") =>
        /\ pc = "done"
        /\ protocol_log = StandardLog
        /\ devices["Storage"].has_plate
        /\ devices["Storage"].plate_id = PLATE
        /\ \A d \in DeviceNames \ {"Storage"} :
              ~devices[d].has_plate /\ devices[d].plate_id = None
        /\ ~robot.has_plate
        /\ robot.plate_id = None
        /\ robot.current_position = Home

C10_Witness ==
    /\ calls = 1
    /\ pc = "done"
    /\ Len(protocol_log) = 5
    /\ devices["Storage"].has_plate

\* the step just taken added k to moves_count
Moved(k) == robot'.moves_count = robot.moves_count + k

\* the moves a transfer_plate call makes from the state it is called in
TransferMoves(from, to) ==
    IF ~Registered(from, to) THEN 0
    ELSE IF robot.has_plate \/ ~devices[from].has_plate THEN 0
    ELSE IF to # from /\ devices[to].has_plate THEN 1
    ELSE 2

\* C11: moves_count grows by one per move_to and by nothing else: move_to
\* and return_home add 1, a pick or place adds 1 when it succeeds and 0 when
\* its precondition fails, a transfer adds 2 on success, 0 when the pick
\* fails and 1 when the pick succeeds and the place fails, every other call
\* adds 0, and the complete standard protocol ends with moves_count = 11.
C11_MovesCount ==
    /\ [][/\ last'.op \in {"move_to", "return_home"} => Moved(1)
          /\ last'.op = "pick_plate" =>
                /\ last'.ret = "True" <=>
                      (~robot.has_plate /\ devices[last'.args[1]].has_plate)
                /\ IF last'.ret = "True" THEN Moved(1) ELSE Moved(0)
          /\ last'.op = "place_plate" =>
                /\ last'.ret = "True" <=>
                      (robot.has_plate /\ ~devices[last'.args[1]].has_plate)
                /\ IF last'.ret = "True" THEN Moved(1) ELSE Moved(0)
          /\ TransferReturned =>
                /\ Moved(TransferMoves(last'.args[2], last'.args[3]))
                /\ last'.ret = "True" => Moved(2)
          /\ last'.op \notin {"move_to", "return_home", "pick_plate", "place_plate",
                              "transfer_plate"} => Moved(0)]_vars
    /\ []((calls = 1 /\ pc = "done") => robot.moves_count = 11)

\* the standard run has finished with its eleven moves
C11_Witness ==
    /\ calls = 1
    /\ pc = "done"
    /\ robot.moves_count = 11
    /\ robot.current_position = Home

\* C12: load_plate on a device that holds a plate, and unload_plate and
\* process on a device that holds none, raise an error and leave has_plate,
\* plate_id and status of every device as they were.
C12_FailedDeviceCallChangesNothing ==
    [][/\ (last'.op = "load_plate" /\ devices[last'.args[1]].has_plate) =>
             /\ last'.ret = "raised"
             /\ last'.err.type = "Exception"
             /\ devices' = devices
       /\ (last'.op = "unload_plate" /\ ~devices[last'.args[1]].has_plate) =>
             /\ last'.ret = "raised"
             /\ last'.err.type = "Exception"
             /\ devices' = devices
       /\ (last'.op = "process" /\ proc = None /\ ~devices[last'.args[1]].has_plate) =>
             /\ last'.ret = "raised"
             /\ last'.err.type = "Exception"
             /\ devices' = devices
             /\ proc' = None]_vars

\* load_plate has just been refused by a device that holds a plate
C12_Witness ==
    /\ last.op = "load_plate"
    /\ last.ret = "raised"
    /\ last.err.msg[2] = "already has plate"
    /\ devices[last.args[1]].has_plate
    /\ devices[last.args[1]].plate_id # last.args[2]

\* the edges of the documented device state machine
DocumentedEdges ==
    { <<"idle", "loaded">>, <<"loaded", "processing">>, <<"processing", "complete">>,
      <<"loaded", "idle">>, <<"processing", "idle">>, <<"complete", "idle">> }

\* one step of a device from status a to status b: no change, one edge, or,
\* when a transfer picks from and places into the same device, the edge to
\* idle followed by the edge to loaded
DocumentedStep(a, b, d) ==
    \/ a = b
    \/ <<a, b>> \in DocumentedEdges
    \/ /\ TransferReturned
       /\ last'.args[2] = d /\ last'.args[3] = d
       /\ <<a, "idle">> \in DocumentedEdges /\ b = "loaded"

\* C13: a device's status changes only along idle->loaded, loaded->processing,
\* processing->complete and loaded/processing/complete->idle.
C13_OnlyDocumentedEdges ==
    [][\A d \in DeviceNames :
          DocumentedStep(devices[d].status, devices'[d].status, d)]_vars

\* C14: after a successful pick_plate(device, plate id) the robot's plate id
\* is the id the device held immediately before the pick, and the robot's
\* has_plate is true exactly when its plate_id is set.
C14_PickTakesDevicePlate ==
    [][(last'.op = "pick_plate" /\ last'.ret = "True") =>
         /\ robot'.plate_id = devices[last'.args[1]].plate_id
         /\ robot'.has_plate <=> robot'.plate_id # None]_vars

RECURSIVE CountStatus(_, _)
\* the number of entries of log with the given status
CountStatus(log, status) ==
    IF log = <<>> THEN 0
    ELSE (IF Head(log).status = status THEN 1 ELSE 0) + CountStatus(Tail(log), status)

\* C15: the printed metrics are total = number of entries, successes =
\* number of success entries, failures = total - successes, and the success
\* rate is successes/total*100 to the nearest tenth (66.7 for 2 of 3), and 0
\* when the log is empty.  The rate is in tenths of a percent.
C15_ReportMetrics ==
    report.printed =>
        LET n == Len(protocol_log)
            k == CountStatus(protocol_log, "success")
            e == report.rate * n - 1000 * k
        IN  /\ report.total = n
            /\ report.successful = k
            /\ report.failed = n - k
            /\ report.failed = CountStatus(protocol_log, "failed")
            /\ n = 0 => report.rate = 0
            /\ n > 0 => (2 * e <= n /\ -2 * e <= n)
            /\ (n = 3 /\ k = 2) => report.rate = 667

\* the report of a log of two successes and one failure
C15_Witness ==
    /\ report.printed
    /\ Len(protocol_log) = 3
    /\ report.successful = 2
    /\ report.failed = 1
    /\ report.rate = 667

\* C16: pick_plate fails exactly when the gripper is occupied or the device
\* is empty, place_plate exactly when the gripper is empty or the device is
\* loaded, and a failed pick or place leaves every field of the robot and of
\* the devices unchanged.
C16_FailedPickPlaceChangesNothing ==
    [][/\ last'.op = "pick_plate" =>
             /\ last'.ret = "raised" <=>
                   (robot.has_plate \/ ~devices[last'.args[1]].has_plate)
             /\ last'.ret = "raised" =>
                   /\ last'.err.type = "Exception"
                   /\ robot' = robot
                   /\ devices' = devices
       /\ last'.op = "place_plate" =>
             /\ last'.ret = "raised" <=>
                   (~robot.has_plate \/ devices[last'.args[1]].has_plate)
             /\ last'.ret = "raised" =>
                   /\ last'.err.type = "Exception"
                   /\ robot' = robot
                   /\ devices' = devices]_vars

\* a place refused by a loaded device after a pick moved the robot there
C16_Witness ==
    /\ last.op = "place_plate"
    /\ last.ret = "raised"
    /\ last.err.msg[2] = "already has plate"
    /\ robot.has_plate
    /\ robot.moves_count = 1
    /\ devices[last.args[1]].has_plate

HeldIds(r, dvs) ==
    {dvs[d].plate_id : d \in {x \in DeviceNames : dvs[x].has_plate}}
        \cup (IF r.has_plate THEN {r.plate_id} ELSE {})

\* the number of holders of a plate among the gripper and the devices
HolderCount(r, dvs) ==
    Cardinality({d \in DeviceNames : dvs[d].has_plate}) + (IF r.has_plate THEN 1 ELSE 0)

\* C18: a transfer_plate call made where the held plate ids are pairwise
\* distinct, with a plate id equal to the id the source holds (when it holds
\* one), leaves the set of plate ids held by gripper and devices as it was,
\* still pairwise distinct, whether the call succeeds or fails.
C18_PlateConservation ==
    [][(/\ TransferReturned
        /\ Registered(last'.args[2], last'.args[3])
        /\ UniqueHolders(robot, devices)
        /\ devices[last'.args[2]].has_plate =>
              last'.args[1] = devices[last'.args[2]].plate_id) =>
         /\ HeldIds(robot', devices') = HeldIds(robot, devices)
         /\ HolderCount(robot', devices') = HolderCount(robot, devices)
         /\ UniqueHolders(robot', devices')]_vars

\* a second plate has been moved by a transfer that named its id, next to
\* the plate in Storage
C18_Witness ==
    /\ last.op = "transfer_plate" /\ last.ret = "True"
    /\ last.args[1] = OtherPlate
    /\ devices[last.args[3]].plate_id = OtherPlate
    /\ ~devices[last.args[2]].has_plate
    /\ devices["Storage"].plate_id = PLATE
    /\ HeldIds(robot, devices) = PlateIds

\* C19: from every placement run_cell_screening_protocol ends, completed or
\* aborted, and returns None without an error; each run appends at most 5
\* log entries (the log, empty at first, has at most 5 per run made); and
\* return_home is executed only as the last step of a run that then
\* completes, never on a run that aborts.
C19_ProtocolTerminates ==
    /\ <>(pc \in {"done", "aborted"})
    /\ [](pc \in {"done", "aborted"} =>
             /\ last = Call("run_cell_screening_protocol", <<>>, "None", NoError))
    /\ [](Len(protocol_log) \in 0..(5 * calls))
    /\ [][last'.op = "return_home" =>
             /\ pc = "run" /\ step = Len(Protocol)
             /\ pc' = "run" /\ step' = Len(Protocol) + 1]_vars
    /\ [](pc = "aborted" => step < Len(Protocol))
    /\ [](step = Len(Protocol) + 1 => pc \in {"run", "done"})
    /\ [](pc = "done" => robot.current_position = Home)

\* a run aborted by its last process step, after four failed transfers
C19_Witness ==
    /\ calls = 1
    /\ pc = "aborted"
    /\ step = 8
    /\ Len(protocol_log) = 4
    /\ robot.has_plate

\* the calls that are not transfer_plate
OtherCalls ==
    {"load_plate", "unload_plate", "process", "move_to", "pick_plate", "place_plate",
     "return_home", "show_protocol_log"}

\* C20: every step keeps the entries the log has, in their order and
\* unmodified, so its length never decreases; only a transfer_plate call
\* changes the log, and load_plate, unload_plate, process, move_to,
\* pick_plate, place_plate, return_home and show_protocol_log leave it as
\* it is.
C20_LogAppendOnly ==
    [][/\ Len(protocol_log') >= Len(protocol_log)
       /\ SubSeq(protocol_log', 1, Len(protocol_log)) = protocol_log
       /\ protocol_log' # protocol_log => TransferReturned
       /\ last'.op \in OtherCalls => protocol_log' = protocol_log]_vars

\* the log of one transfer has been shown and is still there
C20_Witness ==
    /\ last.op = "show_protocol_log"
    /\ Len(protocol_log) = 1
    /\ protocol_log[1].status = "success"

====
